---- MODULE Spec2Model ----
(***************************************************************************)
(* Model of 02_scripts/001_convert_pannagram_to_vcf.py: the two stages     *)
(* h5_to_tsv (HDF5 array store -> tab separated table) and tsv_to_vcf      *)
(* (table -> VCF records), run one after the other by __main__.            *)
(*                                                                         *)
(* A Python str is a sequence of one-character strings, so that join,      *)
(* strip and split act on the characters of a line as they do in the code. *)
(***************************************************************************)
EXTENDS Integers, Sequences, FiniteSets, TLC

\* ---------------------------------------------------------------- bounds
\* longest sample array of the store in Spec
MaxLen == 3
\* largest chunk size tried in Spec
MaxChunk == 2
\* largest number of accessions of the store in SpecRow
MaxCols == 4

\* ------------------------------------------------------ program constants
DefaultChunk == 500000

valid_bases == { <<"A">>, <<"C">>, <<"G">>, <<"T">> }

missing_bases == { <<"N">>, <<"-">> }

chromosome == "Chr5"

\* --------------------------------------------------------- Python strings
Tab == "\t"

\* characters removed by str.strip() that can occur in a line
whitespace == { " ", Tab }

\* code point of a character (the order Python compares strings by)
ord(c) ==
  CASE c = Tab -> 9
    [] c = " " -> 32
    [] c = "," -> 44
    [] c = "-" -> 45
    [] c = "." -> 46
    [] c = "/" -> 47
    [] c = "0" -> 48
    [] c = "1" -> 49
    [] c = "2" -> 50
    [] c = "3" -> 51
    [] c = "4" -> 52
    [] c = "5" -> 53
    [] c = "6" -> 54
    [] c = "7" -> 55
    [] c = "8" -> 56
    [] c = "9" -> 57
    [] c = "A" -> 65
    [] c = "C" -> 67
    [] c = "G" -> 71
    [] c = "N" -> 78
    [] c = "T" -> 84
    [] c = "X" -> 88
    [] c = "o" -> 111
    [] c = "p" -> 112
    [] c = "s" -> 115

\* a < b for Python strings: lexicographic by code point
RECURSIVE str_lt(_, _)
str_lt(a, b) ==
  IF b = <<>> THEN FALSE
  ELSE IF a = <<>> THEN TRUE
  ELSE IF ord(Head(a)) < ord(Head(b)) THEN TRUE
  ELSE IF ord(Head(a)) > ord(Head(b)) THEN FALSE
  ELSE str_lt(Tail(a), Tail(b))

\* sorted(S) of a set of strings: ascending list
RECURSIVE sorted(_)
sorted(S) ==
  IF S = {} THEN <<>>
  ELSE LET m == CHOOSE x \in S : \A y \in S : x = y \/ str_lt(x, y)
       IN  <<m>> \o sorted(S \ {m})

Digits == <<"0", "1", "2", "3", "4", "5", "6", "7", "8", "9">>

\* str(n) of a non-negative integer: its decimal digits
RECURSIVE str(_)
str(n) ==
  IF n < 10 THEN <<Digits[n + 1]>>
  ELSE str(n \div 10) \o <<Digits[(n % 10) + 1]>>

\* sep.join(xs): the strings of xs with the character sep between them
RECURSIVE join(_, _)
join(sep, xs) ==
  IF xs = <<>> THEN <<>>
  ELSE IF Len(xs) = 1 THEN xs[1]
  ELSE xs[1] \o <<sep>> \o join(sep, Tail(xs))

RECURSIVE lstrip(_)
lstrip(s) ==
  IF s # <<>> /\ Head(s) \in whitespace THEN lstrip(Tail(s)) ELSE s

RECURSIVE rstrip(_)
rstrip(s) ==
  IF s # <<>> /\ s[Len(s)] \in whitespace
    THEN rstrip(SubSeq(s, 1, Len(s) - 1))
    ELSE s

\* s.strip(): leading and trailing whitespace removed
strip(s) == rstrip(lstrip(s))

RECURSIVE split_from(_, _, _, _)
split_from(s, sep, i, cur) ==
  IF i > Len(s) THEN <<cur>>
  ELSE IF s[i] = sep THEN <<cur>> \o split_from(s, sep, i + 1, <<>>)
  ELSE split_from(s, sep, i + 1, Append(cur, s[i]))

\* s.split(sep): the fields between the separators ([""] for the empty string)
split(s, sep) == split_from(s, sep, 1, <<>>)

min(a, b) == IF a < b THEN a ELSE b

\* the elements of a list, as a set
Range(xs) == { xs[i] : i \in 1..Len(xs) }

\* xs.index(x) + 1: 1-based position of the first occurrence of x in xs
index1(xs, x) == CHOOSE i \in 1..Len(xs) : xs[i] = x /\ \A j \in 1..(i - 1) : xs[j] # x

\* ------------------------------------------------------------------ state
VARIABLES
  accs,           \* f["accs"]: accession name -> array of one-character calls
  chunk_size,     \* rows read per window in h5_to_tsv
  pc,             \* position of the run: main, h5_loop, h5_failed,
                  \*   tsv_to_vcf, vcf_loop, vcf_failed, done
  error,          \* the uncaught Python exception that ended the run, or none
  sample_names,   \* h5_to_tsv: sorted accession names
  num_positions,  \* h5_to_tsv: datasets[0].shape[0]
  start,          \* h5_to_tsv: first index of the next window
  tsv,            \* lines of the intermediate table, in order
  fin,            \* tsv_to_vcf: number of lines of the table already read
  vcf_head,       \* header of the output file; <<>> while the file is absent
  vcf_body        \* data lines written to the output file, in order

vars == <<accs, chunk_size, pc, error, sample_names, num_positions, start,
          tsv, fin, vcf_head, vcf_body>>

\* calls stored in the array of the sample accession of Spec
SampleCalls == { <<"A">>, <<"C">>, <<" ">> }

\* calls stored in the array of the reference accession (last name) of Spec
RefCalls == { <<"A">>, <<"N">>, <<" ">> }

\* calls stored in the arrays of SpecRow
AllCalls == { <<"A">>, <<"C">>, <<"G">>, <<"T">>, <<"N">>, <<"-">>, <<"X">>, <<" ">> }

\* arrays over the calls cs of length at most n
Arrays(cs, n) == UNION { [1..k -> cs] : k \in 0..n }

InitRun ==
  /\ pc = "main"
  /\ error = "none"
  /\ sample_names = <<>>
  /\ num_positions = 0
  /\ start = 0
  /\ tsv = <<>>
  /\ fin = 0
  /\ vcf_head = <<>>
  /\ vcf_body = <<>>

\* a store of two accessions, a sample "1" and the reference "2", with
\* arrays of any lengths, read with any chunk size
Init ==
  /\ \E sample \in Arrays(SampleCalls, MaxLen) :
       \E ref \in Arrays(RefCalls, MaxLen) :
         accs = (str(1) :> sample) @@ (str(2) :> ref)
  /\ chunk_size \in 1..MaxChunk
  /\ InitRun

\* a store of up to MaxCols accessions with at most one position each,
\* read with the chunk size of the script
InitRow ==
  /\ \E K \in 1..MaxCols :
       accs \in [{ str(k) : k \in 1..K } -> Arrays(AllCalls, 1)]
  /\ chunk_size = DefaultChunk
  /\ InitRun

\* ------------------------------------------------------------- h5_to_tsv
\* ds[s:e] of an array: the slice is clipped to the array
ds_slice(ds, s, e) == SubSeq(ds, s + 1, min(e, Len(ds)))

\* [ds[s:e] for ds in datasets]
slices(names, s, e) == [j \in 1..Len(names) |-> ds_slice(accs[names[j]], s, e)]

\* np.stack raises ValueError unless all arrays have the same shape
same_shape(sl) == \A j \in 1..Len(sl) : Len(sl[j]) = Len(sl[1])

\* the columns stacked in reverse order
chunk_data_reversed(sl) ==
  [i \in 1..Len(sl[1]) |-> [j \in 1..Len(sl) |-> sl[Len(sl) + 1 - j][i]]]

\* np.stack(sl, axis=1).astype(str): row i holds sl[1][i], ..., sl[K][i]
chunk_data(sl) == [i \in 1..Len(sl[1]) |-> [j \in 1..Len(sl) |-> sl[j][i]]]

\* positions numbered from zero: the "+ 1" of line 44 left out
positions_from_zero(s, e) == [i \in 1..(e - s) |-> str(s + i - 1)]

\* positions numbered within the window: np.arange(0, e - s) + 1
positions_in_window(s, e) == [i \in 1..(e - s) |-> str(i)]

\* (np.arange(s, e) + 1).astype(str)
positions(s, e) == [i \in 1..(e - s) |-> str(s + i)]

\* np.concatenate([positions, chunk_data], axis=1)
output_chunk(pos, data) == [i \in 1..Len(pos) |-> <<pos[i]>> \o data[i]]

\* end of the window that begins at s
window_end(s) == min(s + chunk_size, num_positions)

\* first index of the window after the one that begins at s
next_start(s) == s + chunk_size

\* lines 22-33: open the files, sort the names, take the length of the first
\* array, write the header line
WriteTsvHeader ==
  /\ pc = "main"
  /\ LET names == sorted(DOMAIN accs)
     IN  /\ sample_names' = names
         /\ num_positions' = Len(accs[names[1]])
         /\ tsv' = << join(Tab, << <<"p", "o", "s">> >> \o names) >>
  /\ start' = 0
  /\ pc' = "h5_loop"
  /\ UNCHANGED <<accs, chunk_size, error, fin, vcf_head, vcf_body>>

\* lines 37-50: one window read, transposed and written
WriteChunk ==
  /\ pc = "h5_loop"
  /\ start < num_positions
  /\ LET end == window_end(start)
         sl  == slices(sample_names, start, end)
     IN  /\ same_shape(sl)
         /\ LET out == output_chunk(positions(start, end), chunk_data(sl))
            IN  tsv' = tsv \o [i \in 1..Len(out) |-> join(Tab, out[i])]
  /\ start' = next_start(start)
  /\ UNCHANGED <<accs, chunk_size, pc, error, sample_names, num_positions,
                 fin, vcf_head, vcf_body>>

\* line 41: np.stack raises on slices of different lengths; the exception
\* leaves h5_to_tsv and ends the run
StackFails ==
  /\ pc = "h5_loop"
  /\ start < num_positions
  /\ ~ same_shape(slices(sample_names, start, window_end(start)))
  /\ pc' = "h5_failed"
  /\ error' = "ValueError"
  /\ UNCHANGED <<accs, chunk_size, sample_names, num_positions, start, tsv,
                 fin, vcf_head, vcf_body>>

\* line 37: the range is exhausted; h5_to_tsv returns to __main__
TsvDone ==
  /\ pc = "h5_loop"
  /\ start >= num_positions
  /\ pc' = "tsv_to_vcf"
  /\ UNCHANGED <<accs, chunk_size, error, sample_names, num_positions, start,
                 tsv, fin, vcf_head, vcf_body>>

\* ------------------------------------------------------------ tsv_to_vcf
\* line.strip().split("\t")
parse_line(line) == split(strip(line), Tab)

\* alternates in order of first appearance among the samples: sorted() left out
alt_alleles_first_seen(sample_bases, ref_base) ==
  LET S == { b \in Range(sample_bases) : b \in valid_bases /\ b # ref_base }
  IN  CHOOSE q \in [1..Cardinality(S) -> S] :
        /\ Range(q) = S
        /\ \A j \in 1..Len(q) : \A k \in 1..Len(q) :
             j < k => index1(sample_bases, q[j]) < index1(sample_bases, q[k])

\* alternates not restricted to A, C, G, T: "b in valid_bases" left out
alt_alleles_unfiltered(sample_bases, ref_base) ==
  sorted({ b \in Range(sample_bases) : b # ref_base })

\* lines 100-101
alt_alleles(sample_bases, ref_base) ==
  sorted({ b \in Range(sample_bases) : b \in valid_bases /\ b # ref_base })

\* line 104
alt_field(alts) == IF alts = <<>> THEN <<".">> ELSE join(",", alts)

\* lines 109-117: the branch of the classifier taken for one sample base
genotype_branch(base, ref_base, alts) ==
  IF base \in missing_bases \/ base \notin valid_bases THEN 1
  ELSE IF base = ref_base THEN 2
  ELSE IF base \in Range(alts) THEN 3
  ELSE 4

\* the allele index taken as alt_alleles.index(base), without the "+ 1"
genotype_zero_based(base, ref_base, alts) ==
  LET br == genotype_branch(base, ref_base, alts)
  IN  IF br = 1 THEN <<".", "/", ".">>
      ELSE IF br = 2 THEN <<"0", "/", "0">>
      ELSE IF br = 3
        THEN LET allele_index == index1(alts, base) - 1
             IN  str(allele_index) \o <<"/">> \o str(allele_index)
      ELSE <<".", "/", ".">>

\* lines 109-117: the genotype code appended for one sample base
genotype(base, ref_base, alts) ==
  LET br == genotype_branch(base, ref_base, alts)
  IN  IF br = 1 THEN <<".", "/", ".">>
      ELSE IF br = 2 THEN <<"0", "/", "0">>
      ELSE IF br = 3
        THEN LET allele_index == index1(alts, base)
             IN  str(allele_index) \o <<"/">> \o str(allele_index)
      ELSE <<".", "/", ".">>

\* lines 106-117
genotypes(sample_bases, ref_base, alts) ==
  [j \in 1..Len(sample_bases) |-> genotype(sample_bases[j], ref_base, alts)]

\* lines 120-121: the fields of the data line, in order
vcf_line(position, ref_base, sample_bases) ==
  LET alts == alt_alleles(sample_bases, ref_base)
  IN  [ CHROM  |-> chromosome,
        POS    |-> position,
        ID     |-> <<".">>,
        REF    |-> ref_base,
        ALT    |-> alt_field(alts),
        QUAL   |-> <<".">>,
        FILTER |-> <<"P", "A", "S", "S">>,
        INFO   |-> <<".">>,
        FORMAT |-> <<"G", "T">>,
        GT     |-> genotypes(sample_bases, ref_base, alts) ]

\* lines 71-84: open the table and the output file, read the header line,
\* write the VCF header
WriteVcfHeader ==
  /\ pc = "tsv_to_vcf"
  /\ LET header == parse_line(tsv[1])
     IN  vcf_head' = << [ reference |-> header[Len(header)],
                          samples   |-> SubSeq(header, 2, Len(header) - 1) ] >>
  /\ fin' = 1
  /\ pc' = "vcf_loop"
  /\ UNCHANGED <<accs, chunk_size, error, sample_names, num_positions, start,
                 tsv, vcf_body>>

\* lines 87-97: the next line has a reference outside A, C, G, T: skipped
SkipLine ==
  /\ pc = "vcf_loop"
  /\ fin < Len(tsv)
  /\ LET parts == parse_line(tsv[fin + 1])
         bases == Tail(parts)
     IN  /\ bases # <<>>
         /\ bases[Len(bases)] \notin valid_bases
  /\ fin' = fin + 1
  /\ UNCHANGED <<accs, chunk_size, pc, error, sample_names, num_positions,
                 start, tsv, vcf_head, vcf_body>>

\* lines 87-122: the next line has a reference in A, C, G, T: one data line
EmitLine ==
  /\ pc = "vcf_loop"
  /\ fin < Len(tsv)
  /\ LET parts == parse_line(tsv[fin + 1])
         bases == Tail(parts)
     IN  /\ bases # <<>>
         /\ bases[Len(bases)] \in valid_bases
         /\ vcf_body' = Append(vcf_body,
              vcf_line(parts[1], bases[Len(bases)],
                       SubSeq(bases, 1, Len(bases) - 1)))
  /\ fin' = fin + 1
  /\ UNCHANGED <<accs, chunk_size, pc, error, sample_names, num_positions,
                 start, tsv, vcf_head>>

\* line 92: bases[-1] of an empty list raises IndexError; the exception
\* leaves tsv_to_vcf (the with block closes the output file) and ends the run
LineFails ==
  /\ pc = "vcf_loop"
  /\ fin < Len(tsv)
  /\ Tail(parse_line(tsv[fin + 1])) = <<>>
  /\ fin' = fin + 1
  /\ pc' = "vcf_failed"
  /\ error' = "IndexError"
  /\ UNCHANGED <<accs, chunk_size, sample_names, num_positions, start, tsv,
                 vcf_head, vcf_body>>

\* line 87: the table is exhausted; tsv_to_vcf returns and the run completes
VcfDone ==
  /\ pc = "vcf_loop"
  /\ fin >= Len(tsv)
  /\ pc' = "done"
  /\ UNCHANGED <<accs, chunk_size, error, sample_names, num_positions, start,
                 tsv, fin, vcf_head, vcf_body>>

Next ==
  \/ WriteTsvHeader
  \/ WriteChunk
  \/ StackFails
  \/ TsvDone
  \/ WriteVcfHeader
  \/ SkipLine
  \/ EmitLine
  \/ LineFails
  \/ VcfDone

Spec == Init /\ [][Next]_vars

SpecRow == InitRow /\ [][Next]_vars

\* ================================================================ claims
\* the stages a run is in once h5_to_tsv has returned
AfterStreamer == { "tsv_to_vcf", "vcf_loop", "vcf_failed", "done" }

\* the accession whose name sorts first, and the one whose name sorts last
FirstAcc == CHOOSE n \in DOMAIN accs : \A m \in DOMAIN accs : n = m \/ str_lt(n, m)

LastAcc == CHOOSE n \in DOMAIN accs : \A m \in DOMAIN accs : n = m \/ str_lt(m, n)

\* the fields of a line of the table as written (no strip)
Fields(line) == split(line, Tab)

\* the alternates listed by the ALT field of a data line
AltsOf(r) == IF r.ALT = <<".">> THEN <<>> ELSE split(r.ALT, ",")

\* the rendering of a homozygous genotype of allele k
Hom(k) == str(k) \o <<"/">> \o str(k)

MissingGT == <<".", "/", ".">>

\* the data lines written for position i
RecordsAt(i) == { k \in 1..Len(vcf_body) : vcf_body[k].POS = str(i) }

\* C1: the rows written so far carry the positions 1, 2, 3, ... in order,
\* and once h5_to_tsv has returned there are exactly N of them after the
\* header, N the length of the first array in sorted order.
C1_Completeness ==
  /\ \A i \in 1..(Len(tsv) - 1) : Fields(tsv[i + 1])[1] = str(i)
  /\ pc \in AfterStreamer => Len(tsv) = 1 + Len(accs[FirstAcc])

\* three rows written in windows of two: the last window is short
C1_Witness ==
  /\ pc = "tsv_to_vcf"
  /\ chunk_size = 2
  /\ Len(accs[FirstAcc]) = 3
  /\ Len(tsv) = 4

\* the lines of the table built position by position, without windows
WholeTable ==
  LET names == sorted(DOMAIN accs)
  IN  [i \in 1..Len(accs[FirstAcc]) |->
         join(Tab, <<str(i)>> \o [j \in 1..Len(names) |-> accs[names[j]][i]])]

\* the data lines tsv_to_vcf writes for a list of table lines, up to the
\* first line it fails on
RECURSIVE DataLines(_)
DataLines(lines) ==
  IF lines = <<>> THEN <<>>
  ELSE LET bases == Tail(parse_line(Head(lines)))
       IN  IF bases = <<>> THEN <<>>
           ELSE IF bases[Len(bases)] \notin valid_bases
             THEN DataLines(Tail(lines))
           ELSE << vcf_line(parse_line(Head(lines))[1], bases[Len(bases)],
                            SubSeq(bases, 1, Len(bases) - 1)) >>
                \o DataLines(Tail(lines))

\* no array is shorter than the first one (or the first one is empty)
NoneShorter == \A n \in DOMAIN accs : Len(accs[n]) >= Len(accs[FirstAcc])

\* C2: what a run leaves behind is a function of the store alone, whatever
\* the chunk size: the streamer fails exactly when some array is shorter
\* than the first, and otherwise the data lines of the output are those of
\* the table built without windows.
C2_ChunkInvariance ==
  /\ pc = "h5_failed" => ~ NoneShorter
  /\ pc \in AfterStreamer => NoneShorter
  /\ pc \in { "done", "vcf_failed" } =>
       /\ vcf_body = DataLines(WholeTable)
       /\ (pc = "vcf_failed") =
            (\E i \in 1..Len(WholeTable) : Len(parse_line(WholeTable[i])) = 1)

\* a complete run over three positions, read in windows of two, with a data
\* line on either side of the window boundary
C2_Witness ==
  /\ pc = "done"
  /\ chunk_size = 2
  /\ num_positions = 3
  /\ Len(vcf_body) = 3

\* C3: the header names the accessions in ascending order, each once, and
\* in every row the j-th value is the call of the j-th header name at the
\* row's index.
C3_ColumnFidelity ==
  Len(tsv) >= 1 =>
    LET header == Fields(tsv[1])
        K      == Len(header) - 1
    IN  /\ K = Cardinality(DOMAIN accs)
        /\ { header[j + 1] : j \in 1..K } = DOMAIN accs
        /\ \A j \in 1..K : \A k \in 1..K :
             j < k => str_lt(header[j + 1], header[k + 1])
        /\ \A i \in 1..(Len(tsv) - 1) :
             /\ Len(Fields(tsv[i + 1])) = K + 1
             /\ \A j \in 1..K :
                  Fields(tsv[i + 1])[j + 1] = accs[header[j + 1]][i]

\* the row of the short last window holds two different calls
C3_Witness ==
  /\ chunk_size = 2
  /\ num_positions = 3
  /\ Len(tsv) = 4
  /\ accs[FirstAcc][3] # accs[LastAcc][3]

\* C4: a row read by the encoder whose reference call (last accession) is
\* not A, C, G or T has no data line and raises no error; one whose
\* reference call is A, C, G or T has exactly one, with that reference.
C4_ReferenceFiltering ==
  \A i \in 1..(fin - 1) :
    LET ref == accs[LastAcc][i]
    IN  IF ref \in valid_bases
          THEN /\ Cardinality(RecordsAt(i)) = 1
               /\ \A k \in RecordsAt(i) : vcf_body[k].REF = ref
          ELSE /\ RecordsAt(i) = {}
               /\ ~ (pc = "vcf_failed" /\ fin = i + 1)

\* C5: a row with reference call r in A, C, G, T has one data line, whose
\* alternates are exactly the sample calls in A, C, G, T other than r,
\* each once, in ascending order.
C5_AlternateDiscovery ==
  \A i \in 1..(fin - 1) :
    LET names   == sorted(DOMAIN accs)
        ref     == accs[LastAcc][i]
        samples == { accs[names[j]][i] : j \in 1..(Len(names) - 1) }
    IN  ref \in valid_bases =>
          /\ RecordsAt(i) # {}
          /\ \A k \in RecordsAt(i) :
               LET alts == AltsOf(vcf_body[k])
               IN  /\ Range(alts) =
                        { b \in samples : b \in valid_bases /\ b # ref }
                   /\ \A j \in 1..Len(alts) : \A l \in 1..Len(alts) :
                        j < l => str_lt(alts[j], alts[l])

\* G is met before C among the samples, and C is listed first
C5_Witness ==
  /\ pc = "done"
  /\ Cardinality(DOMAIN accs) >= 3
  /\ accs[str(1)] = << <<"G">> >>
  /\ accs[str(2)] = << <<"C">> >>
  /\ Len(vcf_body) = 1
  /\ vcf_body[1].ALT = <<"C", ",", "G">>

\* the table line a data line was made from
SourceLine(r) == CHOOSE i \in 2..Len(tsv) : parse_line(tsv[i])[1] = r.POS

C7_MalformedRowFatal ==
  \A i \in 2..fin :
    LET parts == parse_line(tsv[i])
    IN  Len(parts) # Len(parse_line(tsv[1])) =>
          /\ pc = "vcf_failed"
          /\ fin = i
          /\ \A k \in 1..Len(vcf_body) : vcf_body[k].POS # parts[1]

\* C8: with arrays of unequal lengths no row is ever written and the run
\* never gets past the streamer.
C8_UnequalLengthsFatal ==
  (\E a \in DOMAIN accs : \E b \in DOMAIN accs : Len(accs[a]) # Len(accs[b]))
    => /\ Len(tsv) <= 1
       /\ pc \notin AfterStreamer

\* C9: a run ended by an exception leaves no output file behind (the code
\* has no way to mark a file as partial).
C9_NoPartialOutput ==
  pc \in { "h5_failed", "vcf_failed" } => vcf_head = <<>>

\* C10: in every data line each genotype code is ./., 0/0 or k/k with k
\* the index of a listed alternate, every listed alternate is carried by
\* some sample, ALT is "." exactly when no code has a non-zero index, and no
\* sample call reaches the last branch of the classifier.
C10_AltGenotypeConsistency ==
  \A n \in 1..Len(vcf_body) :
    LET r     == vcf_body[n]
        M     == Len(AltsOf(r))
        parts == parse_line(tsv[SourceLine(r)])
        calls == SubSeq(parts, 2, Len(parts) - 1)
    IN  /\ \A j \in 1..Len(r.GT) :
             \/ r.GT[j] \in { MissingGT, Hom(0) }
             \/ \E k \in 1..M : r.GT[j] = Hom(k)
        /\ \A k \in 1..M : \E j \in 1..Len(r.GT) : r.GT[j] = Hom(k)
        /\ (r.ALT = <<".">>) =
             (\A j \in 1..Len(r.GT) : r.GT[j] \in { MissingGT, Hom(0) })
        /\ \A j \in 1..Len(calls) :
             genotype_branch(calls[j], r.REF, AltsOf(r)) # 4

\* two alternates, both carried, next to a missing call
C10_Witness ==
  /\ Len(vcf_body) = 1
  /\ vcf_body[1].ALT = <<"C", ",", "G">>
  /\ vcf_body[1].GT = << Hom(2), Hom(1), MissingGT >>

====
